---- MODULE Spec2Model ----
(***************************************************************************)
(* Model of run_pipeline.py: RemotePipelineRunner and main().               *)
(*                                                                         *)
(* Paths are sequences of components.  The local and the remote file       *)
(* systems are a function from file paths to contents plus a set of        *)
(* directories.  The collaborators (paramiko's SSHClient / SFTPClient, the  *)
(* remote shell) are the environment: every call may succeed or fail, and  *)
(* each call is appended to `log` in the order the code issues it.         *)
(***************************************************************************)
EXTENDS Integers, Sequences, FiniteSets, TLC

\* ------------------------------------------------------------------ bounds
MaxFiles == 2      \* number of distinct files a directory tree may hold

\* the relative paths a tree may hold, files at the top and in a
\* sub-directory alternating
AllPaths == << <<"a">>, <<"d", "b">>, <<"c">>, <<"d", "e">>, <<"f">> >>

RelPaths == {AllPaths[i] : i \in 1..MaxFiles}

\* ------------------------------------------------- inputs of run_pipeline
InputPath == <<"in">>       \* args.input
OutputPath == <<"out">>     \* args.output
InputDir == <<"rin">>       \* remote_paths['input_dir']
OutputDir == <<"rout">>     \* remote_paths['output_dir']

\* file contents: what a local input file holds, what a stale file holds,
\* what the remote command writes, and a truncated / partially written file
LocalContent == "local"
StaleContent == "stale"
ResultContent == "result"
PartialContent == "partial"

\* exit statuses recv_exit_status can deliver (-1: the server sent none)
ExitStatuses == {0, 1, -1}

\* ------------------------------------------------------------ path algebra
\* p is base itself or lies below base
IsPrefix(base, p) == Len(base) <= Len(p) /\ SubSeq(p, 1, Len(base)) = base

\* item.relative_to(local_path)
RelativeTo(item, base) == SubSeq(item, Len(base) + 1, Len(item))

\* Path(a) / b
Join(base, rel) == base \o rel

\* Path(p).parent
Parent(p) == SubSeq(p, 1, Len(p) - 1)

\* local_path.name
Name(p) == <<p[Len(p)]>>

\* the directories `mkdir -p p` / mkdir(parents=True) leaves in place
Ancestors(p) == {SubSeq(p, 1, k) : k \in 1..Len(p)}

\* the directories of a tree rooted at root holding the files rels
TreeDirs(root, rels) ==
    {root} \cup UNION {{Join(root, SubSeq(r, 1, k)) : k \in 1..(Len(r) - 1)} : r \in rels}

\* the files of a tree rooted at root holding rels, all with content c
TreeFiles(root, rels, c) == [p \in {Join(root, r) : r \in rels} |-> c]

\* f with path p holding content c
WriteFile(f, p, c) == [q \in (DOMAIN f) \cup {p} |-> IF q = p THEN c ELSE f[q]]

\* f without the files below root
Without(f, root) == [q \in {x \in DOMAIN f : ~IsPrefix(root, x)} |-> f[q]]

\* the union of two file maps with disjoint domains
Merge(f, g) == [q \in (DOMAIN f) \cup (DOMAIN g) |-> IF q \in DOMAIN f THEN f[q] ELSE g[q]]

\* one call issued to a collaborator: `raised` says the call raised an
\* exception its call site does not handle; `status` is the exit status of a
\* remote command, the errno of a stat, 0 otherwise
Op(o, a, r, s) == [op |-> o, arg |-> a, raised |-> r, status |-> s]

ENOENT == 2
EACCES == 13

\* ------------------------------------------------------------ configuration
\* a well-formed configuration: the file parses, remote_config has host and
\* user, the pipeline name is a key, its entry has both keys, its
\* remote_paths has the three directories and its command template uses only
\* the three placeholders ("bad": an unknown placeholder or unbalanced braces)
GoodConfig ==
    [ file |-> "ok",
      remote_config |-> {"host", "user"},
      has_pipeline |-> TRUE,
      pipeline |-> {"remote_paths", "pipeline_command"},
      remote_paths |-> {"input_dir", "output_dir", "database"},
      template |-> "ok" ]

\* the well-formed configuration and every configuration with one defect
Configs ==
    {GoodConfig}
    \cup {[GoodConfig EXCEPT !.file = f] : f \in {"missing", "malformed", "no_remote_config"}}
    \cup {[GoodConfig EXCEPT !.remote_config = k] : k \in {{"host"}, {"user"}}}
    \cup {[GoodConfig EXCEPT !.has_pipeline = FALSE]}
    \cup {[GoodConfig EXCEPT !.pipeline = k] : k \in {{"remote_paths"}, {"pipeline_command"}, {}}}
    \cup {[GoodConfig EXCEPT !.remote_paths = k] :
             k \in {{"input_dir", "output_dir"}, {"output_dir", "database"}}}
    \cup {[GoodConfig EXCEPT !.template = "bad"]}

VARIABLES
    cfg,          \* the configuration file (never changes)
    localFiles,   \* local file system: file path -> content
    localDirs,    \* local file system: directories
    remoteFiles,  \* remote file system: file path -> content
    remoteDirs,   \* remote file system: directories
    pc,           \* position of main() / run_pipeline
    outcome,      \* "none", "true", "false" (returned), "exit" (sys.exit(1)), "raised"
    attrs,        \* TRUE once __init__ has set self.ssh and self.sftp
    ssh,          \* self.ssh: "None", "created", "connected", "closed"
    sftp,         \* self.sftp: "None", "open", "closed"
    todo,         \* files the running walk of _transfer_files has yet to visit
    log,          \* the calls issued to the collaborators, in order
    round,        \* how many times each direction of transfer has been started
    snap          \* file systems as they were when a transfer was repeated

vars == <<cfg, localFiles, localDirs, remoteFiles, remoteDirs, pc, outcome,
          attrs, ssh, sftp, todo, log, round, snap>>

\* ------------------------------------------------------------------- Init
Init ==
    /\ cfg \in Configs
    /\ \E inKind \in {"missing", "file", "dir"}, inTree \in SUBSET RelPaths,
          outKind \in {"missing", "file", "dir"}, outTree \in SUBSET RelPaths :
         /\ inKind # "dir" => inTree = {}
         /\ outKind # "dir" => outTree = {}
         /\ localFiles =
              Merge(Merge(IF inKind = "file" THEN TreeFiles(InputPath, {<<>>}, LocalContent)
                                            ELSE TreeFiles(InputPath, inTree, LocalContent),
                          IF outKind = "file" THEN TreeFiles(OutputPath, {<<>>}, StaleContent)
                                             ELSE TreeFiles(OutputPath, outTree, StaleContent)),
                    <<>>)
         /\ localDirs = (IF inKind = "dir" THEN TreeDirs(InputPath, inTree) ELSE {})
                        \cup (IF outKind = "dir" THEN TreeDirs(OutputPath, outTree) ELSE {})
    /\ \E rTree \in SUBSET RelPaths, rRoot \in BOOLEAN :
         /\ ~rRoot => rTree = {}
         /\ remoteFiles = TreeFiles(InputDir, rTree, StaleContent)
         /\ remoteDirs = IF rRoot THEN TreeDirs(InputDir, rTree) ELSE {}
    /\ pc = "Start"
    /\ outcome = "none"
    /\ attrs = FALSE
    /\ ssh = "None"
    /\ sftp = "None"
    /\ todo = {}
    /\ log = <<>>
    /\ round = [up |-> 0, down |-> 0]
    /\ snap = [rf |-> <<>>, rd |-> {}, lf |-> <<>>]

\* ------------------------------------------------------- main / __init__
\* main(): os.makedirs(args.output, exist_ok=True), then the constructor
\* with _load_config
Main ==
    /\ pc = "Start"
    /\ IF OutputPath \in DOMAIN localFiles
       THEN \* makedirs raises FileExistsError
            /\ pc' = "Failed" /\ outcome' = "raised"
            /\ UNCHANGED <<localDirs, attrs>>
       ELSE /\ localDirs' = localDirs \cup Ancestors(OutputPath)
            /\ IF cfg.file = "ok"
               THEN pc' = "Idle" /\ attrs' = TRUE /\ outcome' = outcome
               ELSE pc' = "Failed" /\ outcome' = "exit" /\ attrs' = attrs
    /\ UNCHANGED <<cfg, localFiles, remoteFiles, remoteDirs, ssh, sftp, todo, log, round, snap>>

\* --------------------------------------------------------- run_pipeline
\* variant: the two presence checks joined by `and`
PipelineValidAnd(c) ==
    /\ c.has_pipeline
    /\ ~("remote_paths" \notin c.pipeline /\ "pipeline_command" \notin c.pipeline)

\* lines 110-117: the pipeline name is a key and its entry has both keys
PipelineValid(c) ==
    /\ c.has_pipeline
    /\ ~("remote_paths" \notin c.pipeline \/ "pipeline_command" \notin c.pipeline)

ValidatePipeline ==
    /\ pc = "Idle"
    /\ IF PipelineValid(cfg)
       THEN pc' = "Validated" /\ outcome' = outcome
       ELSE pc' = "Failed" /\ outcome' = "false"
    /\ UNCHANGED <<cfg, localFiles, localDirs, remoteFiles, remoteDirs, attrs, ssh, sftp,
                   todo, log, round, snap>>

\* connect(): what self.ssh and self.sftp hold afterwards, the calls made,
\* and whether it returned (ok) or called sys.exit(1)
ConnectOutcomes(rc) ==
    IF ~({"host", "user"} \subseteq rc)
    THEN \* KeyError while the arguments of ssh.connect are evaluated
         {[ssh |-> "created", sftp |-> "None", ops |-> <<>>, ok |-> FALSE]}
    ELSE {[ssh |-> "created", sftp |-> "None",
           ops |-> <<Op("connect", <<>>, TRUE, 0)>>, ok |-> FALSE],
          [ssh |-> "connected", sftp |-> "None",
           ops |-> <<Op("connect", <<>>, FALSE, 0), Op("open_sftp", <<>>, TRUE, 0)>>,
           ok |-> FALSE],
          [ssh |-> "connected", sftp |-> "open",
           ops |-> <<Op("connect", <<>>, FALSE, 0), Op("open_sftp", <<>>, FALSE, 0)>>,
           ok |-> TRUE]}

Connect ==
    /\ pc = "Validated"
    /\ \E c \in ConnectOutcomes(cfg.remote_config) :
         /\ ssh' = c.ssh
         /\ sftp' = c.sftp
         /\ log' = log \o c.ops
         /\ IF c.ok
            THEN pc' = "Connected" /\ outcome' = outcome
            ELSE pc' = "Failed" /\ outcome' = "exit"
    /\ UNCHANGED <<cfg, localFiles, localDirs, remoteFiles, remoteDirs, attrs, todo, round, snap>>

\* ------------------------------------------------------- _transfer_files
\* variant: the existence check applied to the other direction
MissingSourceDown(local_path, direction) ==
    /\ local_path \notin (DOMAIN localFiles) \cup localDirs
    /\ direction = "down"

\* line 51: the precondition failure of _transfer_files
MissingSource(local_path, direction) ==
    /\ local_path \notin (DOMAIN localFiles) \cup localDirs
    /\ direction = "up"

\* line 64-65: the files local_path.glob('**/*') yields that pass is_file()
WalkFiles(local_path) ==
    {item \in (DOMAIN localFiles) \cup localDirs :
        /\ IsPrefix(local_path, item)
        /\ item # local_path
        /\ item \in DOMAIN localFiles}

\* variant: the file name instead of the relative path, as in the
\* single-file branch
RemoteFileForFlat(remote_path, rel_path) == Join(remote_path, Name(rel_path))

\* variant: copy-into semantics, the tree goes below an existing directory
RemoteFileForNested(remote_path, rel_path) ==
    IF remote_path \in remoteDirs
    THEN Join(remote_path, InputPath \o rel_path)
    ELSE Join(remote_path, rel_path)

\* line 68: the remote file a walked file is put to
RemoteFileFor(remote_path, rel_path) == Join(remote_path, rel_path)

\* line 73: the local file a walked file is fetched to
LocalFileFor(local_path, rel_path) == Join(local_path, rel_path)

\* _ensure_remote_dir: stat, and on FileNotFoundError a remote `mkdir -p`.
\* A zero exit status means the directory and its ancestors exist; a non-zero
\* one says nothing about what the remote shell did (made), and the error
\* message is then read and decoded from stderr, which may raise (line 87).
\* ret is the value returned, raised an exception that leaves the method.
EnsureRemoteDir(dirs, remote_path) ==
    (IF remote_path \in dirs
     THEN {[dirs |-> dirs, ops |-> <<Op("stat", remote_path, FALSE, 0)>>,
            raised |-> FALSE, ret |-> "None"]}
     ELSE {[dirs |-> IF s = 0 \/ made THEN dirs \cup Ancestors(remote_path) ELSE dirs,
            ops |-> <<Op("stat", remote_path, FALSE, ENOENT),
                      Op("mkdir", remote_path, FALSE, s)>>,
            raised |-> s # 0 /\ ~decoded,
            ret |-> IF s # 0 /\ decoded THEN "False" ELSE IF s = 0 THEN "True" ELSE "None"] :
              s \in ExitStatuses, made \in BOOLEAN, decoded \in BOOLEAN}
          \cup {[dirs |-> dirs,
                 ops |-> <<Op("stat", remote_path, FALSE, ENOENT),
                           Op("mkdir", remote_path, TRUE, 0)>>,
                 raised |-> TRUE, ret |-> "None"]})
    \cup {[dirs |-> dirs, ops |-> <<Op("stat", remote_path, TRUE, EACCES)>>,
           raised |-> TRUE, ret |-> "None"]}

\* self.sftp.put(local, remote_file): succeeds only into an existing
\* directory and then leaves the content there; a failing put leaves the
\* remote file as it was or partially written
SftpPut(files, dirs, remote_file, content) ==
    (IF Parent(remote_file) \in dirs
     THEN {[files |-> WriteFile(files, remote_file, content),
            op |-> Op("put", remote_file, FALSE, 0)],
           [files |-> WriteFile(files, remote_file, PartialContent),
            op |-> Op("put", remote_file, TRUE, 0)]}
     ELSE {})
    \cup {[files |-> files, op |-> Op("put", remote_file, TRUE, 0)]}

\* self.sftp.get(remote_file, local_file): succeeds only for an existing
\* remote file; a failing get leaves the local file as it was or truncated
SftpGet(files, remote, remote_file, local_file) ==
    (IF remote_file \in DOMAIN remote
     THEN {[files |-> WriteFile(files, local_file, remote[remote_file]),
            op |-> Op("get", remote_file, FALSE, 0)]}
     ELSE {})
    \cup {[files |-> files, op |-> Op("get", remote_file, TRUE, 0)],
          [files |-> WriteFile(files, local_file, PartialContent),
           op |-> Op("get", remote_file, TRUE, 0)]}

\* lines 69-71 (and 57-59): _ensure_remote_dir, its result dropped, then put
UploadOne(files, dirs, content, remote_file) ==
    UNION {IF e.raised
           THEN {[files |-> files, dirs |-> e.dirs, ops |-> e.ops, raised |-> TRUE]}
           ELSE {[files |-> p.files, dirs |-> e.dirs, ops |-> e.ops \o <<p.op>>,
                  raised |-> p.op.raised] : p \in SftpPut(files, e.dirs, remote_file, content)}
           : e \in EnsureRemoteDir(dirs, Parent(remote_file))}

\* lines 76-79: _transfer_files returns True unless an exception reached its
\* handler
TransferResult(raised) == ~raised

\* variant: the result of the upload step is not looked at
AfterUploadIgnored(ok) == "Uploaded"

\* lines 125-126: run_pipeline after the upload step
AfterUpload(ok) == IF ok THEN "Uploaded" ELSE "Failed"

\* lines 134-135: run_pipeline after the command
AfterExecute(ok) == IF ok THEN "Executed" ELSE "Failed"

\* lines 138-139: run_pipeline after the download step
AfterDownload(ok) == IF ok THEN "Downloaded" ELSE "Failed"

\* what run_pipeline has returned at the position p
Returned(p) == IF p = "Failed" THEN "false" ELSE outcome

\* lines 124-126, 48-53, 63-64: the upload step starts; a missing source
\* fails it, a directory starts the walk
BeginUpload ==
    /\ pc = "Connected"
    /\ ~(InputPath \in DOMAIN localFiles /\ "input_dir" \in cfg.remote_paths)
    /\ IF "input_dir" \notin cfg.remote_paths
       THEN \* KeyError at remote_paths['input_dir']
            pc' = "Failed" /\ outcome' = "raised" /\ UNCHANGED <<todo, round>>
       ELSE IF MissingSource(InputPath, "up")
            THEN /\ pc' = AfterUpload(FALSE)
                 /\ outcome' = Returned(pc')
                 /\ UNCHANGED <<todo, round>>
            ELSE /\ pc' = "Uploading"
                 /\ todo' = WalkFiles(InputPath)
                 /\ round' = [round EXCEPT !.up = 1]
                 /\ outcome' = outcome
    /\ UNCHANGED <<cfg, localFiles, localDirs, remoteFiles, remoteDirs, attrs, ssh, sftp,
                   log, snap>>

\* lines 55-59: the upload of a single file
UploadSingleFile ==
    /\ pc = "Connected"
    /\ "input_dir" \in cfg.remote_paths
    /\ InputPath \in DOMAIN localFiles
    /\ \E u \in UploadOne(remoteFiles, remoteDirs, localFiles[InputPath],
                          Join(InputDir, Name(InputPath))) :
         /\ remoteFiles' = u.files
         /\ remoteDirs' = u.dirs
         /\ log' = log \o u.ops
         /\ pc' = AfterUpload(TransferResult(u.raised))
         /\ outcome' = Returned(pc')
    /\ UNCHANGED <<cfg, localFiles, localDirs, attrs, ssh, sftp, todo, round, snap>>

\* variant: the exception is handled inside the loop body
LoopContinues(raised) == FALSE

\* line 77: an exception in the loop body leaves the loop
LoopAborts(raised) == raised

\* lines 64-71: one iteration of the upload walk
UploadItem ==
    /\ pc = "Uploading"
    /\ \E item \in todo :
         LET rel_path == RelativeTo(item, InputPath)
             remote_file == RemoteFileFor(InputDir, rel_path)
         IN \E u \in UploadOne(remoteFiles, remoteDirs, localFiles[item], remote_file) :
              /\ remoteFiles' = u.files
              /\ remoteDirs' = u.dirs
              /\ log' = log \o u.ops
              /\ todo' = todo \ {item}
              /\ IF LoopAborts(u.raised)
                 THEN pc' = AfterUpload(TransferResult(u.raised))
                 ELSE pc' = pc
              /\ outcome' = Returned(pc')
    /\ UNCHANGED <<cfg, localFiles, localDirs, attrs, ssh, sftp, round, snap>>

\* line 76: the walk is exhausted, _transfer_files returns True
UploadDone ==
    /\ pc = "Uploading"
    /\ todo = {}
    /\ pc' = AfterUpload(TransferResult(FALSE))
    /\ outcome' = Returned(pc')
    /\ UNCHANGED <<cfg, localFiles, localDirs, remoteFiles, remoteDirs, attrs, ssh, sftp,
                   todo, log, round, snap>>

\* ---------------------------------------------- _execute_remote_command
\* variant: only a positive exit status counts as failure
CommandSucceededPositive(exit_status) == ~(exit_status > 0)

\* lines 97-104: the classification of the exit status
CommandSucceeded(exit_status) == ~(exit_status # 0)

\* what the remote command leaves under the output directory: the files
\* outs, freshly written
RunCommand(files, outs) == Merge(Without(files, OutputDir), TreeFiles(OutputDir, outs, ResultContent))

\* lines 128-135 and 91-107: format the command, run it, classify it.  The
\* output (stdout on status zero, stderr otherwise) is read and decoded
\* inside the try, and a failure there makes the method return False.
ExecuteRemoteCommand ==
    /\ pc = "Uploaded"
    /\ IF \/ ~({"input_dir", "output_dir", "database"} \subseteq cfg.remote_paths)
          \/ cfg.template # "ok"
       THEN \* KeyError while the arguments of format are evaluated, or
            \* KeyError / ValueError / IndexError out of str.format
            /\ pc' = "Failed" /\ outcome' = "raised"
            /\ UNCHANGED <<remoteFiles, remoteDirs, log>>
       ELSE \/ \* exec_command raises
               /\ log' = Append(log, Op("exec", <<>>, TRUE, 0))
               /\ pc' = AfterExecute(FALSE)
               /\ outcome' = Returned(pc')
               /\ UNCHANGED <<remoteFiles, remoteDirs>>
            \/ \E exit_status \in ExitStatuses, outs \in SUBSET RelPaths, decoded \in BOOLEAN :
                 /\ remoteFiles' = RunCommand(remoteFiles, outs)
                 /\ remoteDirs' = remoteDirs \cup (IF outs = {} THEN {} ELSE TreeDirs(OutputDir, outs))
                 /\ log' = Append(log, Op("exec", <<>>, FALSE, exit_status))
                 /\ pc' = AfterExecute(CommandSucceeded(exit_status) /\ decoded)
                 /\ outcome' = Returned(pc')
    /\ UNCHANGED <<cfg, localFiles, localDirs, attrs, ssh, sftp, todo, round, snap>>

\* ------------------------------------------------------------- download
\* lines 137-138, 48-55, 63-64: the download step starts its walk
BeginDownload ==
    /\ pc = "Executed"
    /\ ~MissingSource(OutputPath, "down")
    /\ OutputPath \notin DOMAIN localFiles
    /\ pc' = "Downloading"
    /\ todo' = WalkFiles(OutputPath)
    /\ round' = [round EXCEPT !.down = 1]
    /\ UNCHANGED <<cfg, localFiles, localDirs, remoteFiles, remoteDirs, outcome, attrs, ssh,
                   sftp, log, snap>>

\* lines 64-66, 72-75: one iteration of the download walk
DownloadItem ==
    /\ pc = "Downloading"
    /\ \E item \in todo :
         LET rel_path == RelativeTo(item, OutputPath)
             local_file == LocalFileFor(OutputPath, rel_path)
         IN \E g \in SftpGet(localFiles, remoteFiles, Join(OutputDir, rel_path), local_file) :
              /\ localDirs' = localDirs \cup Ancestors(Parent(local_file))
              /\ localFiles' = g.files
              /\ log' = Append(log, g.op)
              /\ todo' = todo \ {item}
              /\ IF LoopAborts(g.op.raised)
                 THEN pc' = AfterDownload(TransferResult(g.op.raised))
                 ELSE pc' = pc
              /\ outcome' = Returned(pc')
    /\ UNCHANGED <<cfg, remoteFiles, remoteDirs, attrs, ssh, sftp, round, snap>>

\* line 76: the walk is exhausted, _transfer_files returns True
DownloadDone ==
    /\ pc = "Downloading"
    /\ todo = {}
    /\ pc' = AfterDownload(TransferResult(FALSE))
    /\ outcome' = Returned(pc')
    /\ UNCHANGED <<cfg, localFiles, localDirs, remoteFiles, remoteDirs, attrs, ssh, sftp,
                   todo, log, round, snap>>

\* lines 141-142: run_pipeline returns True
ReturnSuccess ==
    /\ pc = "Downloaded"
    /\ pc' = "Done"
    /\ outcome' = "true"
    /\ UNCHANGED <<cfg, localFiles, localDirs, remoteFiles, remoteDirs, attrs, ssh, sftp,
                   todo, log, round, snap>>

\* -------------------------------------------------------------- __del__
\* the outcomes of __del__: what it leaves in self.ssh and self.sftp and the
\* calls it makes.  The attributes are missing when the constructor did not
\* finish, and the AttributeError is dropped.  The two closes are sequential:
\* when self.sftp.close() raises, self.ssh.close() is not reached.  A close
\* that raises leaves its handle open or closed.
Del(has_attrs, s, f) ==
    LET CloseSsh(f2, ops) ==
            IF s = "None"
            THEN {[ssh |-> s, sftp |-> f2, ops |-> ops]}
            ELSE {[ssh |-> "closed", sftp |-> f2,
                   ops |-> ops \o <<Op("close_ssh", <<>>, FALSE, 0)>>]}
                 \cup {[ssh |-> s2, sftp |-> f2,
                        ops |-> ops \o <<Op("close_ssh", <<>>, TRUE, 0)>>] : s2 \in {s, "closed"}}
    IN IF ~has_attrs
       THEN {[ssh |-> s, sftp |-> f, ops |-> <<>>]}
       ELSE IF f = "None"
            THEN CloseSsh(f, <<>>)
            ELSE CloseSsh("closed", <<Op("close_sftp", <<>>, FALSE, 0)>>)
                 \cup {[ssh |-> s, sftp |-> f2,
                        ops |-> <<Op("close_sftp", <<>>, TRUE, 0)>>] : f2 \in {f, "closed"}}

\* line 164 and __del__: the process ends and the runner is finalized
Teardown ==
    /\ pc \in {"Done", "Failed"}
    /\ \E d \in Del(attrs, ssh, sftp) :
          /\ ssh' = d.ssh
          /\ sftp' = d.sftp
          /\ log' = log \o d.ops
    /\ pc' = "TornDown"
    /\ UNCHANGED <<cfg, localFiles, localDirs, remoteFiles, remoteDirs, outcome, attrs,
                   todo, round, snap>>

Next ==
    \/ Main
    \/ ValidatePipeline
    \/ Connect
    \/ BeginUpload
    \/ UploadSingleFile
    \/ UploadItem
    \/ UploadDone
    \/ ExecuteRemoteCommand
    \/ BeginDownload
    \/ DownloadItem
    \/ DownloadDone
    \/ ReturnSuccess
    \/ Teardown

Spec == Init /\ [][Next]_vars

\* ------------------------------------------- the same transfer, run twice
\* a caller runs _transfer_files(input_path, input_dir) again right after it
\* returned True, the local tree unchanged
RepeatUpload ==
    /\ pc = "Uploaded"
    /\ round.up = 1
    /\ InputPath \in localDirs
    /\ snap' = [snap EXCEPT !.rf = remoteFiles, !.rd = remoteDirs]
    /\ round' = [round EXCEPT !.up = 2]
    /\ todo' = WalkFiles(InputPath)
    /\ pc' = "Uploading"
    /\ UNCHANGED <<cfg, localFiles, localDirs, remoteFiles, remoteDirs, outcome, attrs, ssh,
                   sftp, log>>

\* a caller runs _transfer_files(output_path, output_dir, 'down') again right
\* after it returned True, the remote tree unchanged
RepeatDownload ==
    /\ pc = "Downloaded"
    /\ round.down = 1
    /\ snap' = [snap EXCEPT !.lf = localFiles]
    /\ round' = [round EXCEPT !.down = 2]
    /\ todo' = WalkFiles(OutputPath)
    /\ pc' = "Downloading"
    /\ UNCHANGED <<cfg, localFiles, localDirs, remoteFiles, remoteDirs, outcome, attrs, ssh,
                   sftp, log>>

NextTwice == Next \/ RepeatUpload \/ RepeatDownload

SpecTwice == Init /\ [][NextTwice]_vars

\* =================================================================== claims
HasOp(o) == \E i \in 1..Len(log) : log[i].op = o

Terminal == {"Failed", "TornDown"}

\* the input path is a directory / is absent (the run never changes it)
InputIsDir == InputPath \in localDirs
InputMissing == InputPath \notin (DOMAIN localFiles) \cup localDirs

\* every file under the local input directory is on the remote side at
\* input_dir/<relative path> with the local content
AllUploaded ==
    \A item \in DOMAIN localFiles :
        (IsPrefix(InputPath, item) /\ item # InputPath) =>
            LET target == InputDir \o SubSeq(item, Len(InputPath) + 1, Len(item))
            IN target \in DOMAIN remoteFiles /\ remoteFiles[target] = localFiles[item]

\* every file under the remote output directory is present locally at
\* output_path/<relative path>
AllDownloaded ==
    \A f \in DOMAIN remoteFiles :
        (IsPrefix(OutputDir, f) /\ f # OutputDir) =>
            (OutputPath \o SubSeq(f, Len(OutputDir) + 1, Len(f))) \in DOMAIN localFiles

\* the calls this step appends to the log
NewOps == {log'[i] : i \in (Len(log) + 1)..Len(log')}

\* C1: a run that returns success leaves every file of the remote output
\* directory present locally at the same relative path
C1_SuccessDownloadsAll ==
    (pc = "Done" /\ outcome = "true") => AllDownloaded

\* C2: when the directory upload has returned success every local input file
\* is on the remote side at input_dir/<relative path>, and the remote command
\* is issued only from that position
C2_UploadComplete ==
    /\ [](pc = "Uploaded" /\ InputIsDir => AllUploaded)
    /\ [][(\E o \in NewOps : o.op = "exec") => pc = "Uploaded"]_vars

C2_Witness ==
    /\ HasOp("exec")
    /\ InputIsDir
    /\ \E item \in DOMAIN localFiles : IsPrefix(InputPath, item) /\ Len(item) = 3

\* the place of a position in Idle, Connected, Uploaded, Executed,
\* Downloaded, Done
Rank(p) ==
    CASE p \in {"Start", "Idle", "Validated"} -> 0
      [] p \in {"Connected", "Uploading"} -> 1
      [] p = "Uploaded" -> 2
      [] p \in {"Executed", "Downloading"} -> 3
      [] p = "Downloaded" -> 4
      [] p = "Done" -> 5
      [] OTHER -> 6

\* the calls the step leaving a position of a given rank may issue
StepOps(r) ==
    CASE r = 0 -> {"connect", "open_sftp"}
      [] r = 1 -> {"stat", "mkdir", "put"}
      [] r = 2 -> {"exec"}
      [] r = 3 -> {"get"}
      [] OTHER -> {"close_sftp", "close_ssh"}

\* C3: the run moves through connect, upload, execute, download in that
\* order, one position at a time and never backwards; each step issues only
\* its own calls; a failed call ends the run as Failed, and after Failed no
\* step is performed
C3_StrictOrder ==
    [][ /\ (pc \notin Terminal /\ pc' \notin Terminal) =>
              Rank(pc') \in {Rank(pc), Rank(pc) + 1}
        /\ pc = "Failed" => pc' \in Terminal
        /\ pc = "TornDown" => pc' = "TornDown"
        /\ \A o \in NewOps : o.op \in StepOps(Rank(pc))
        /\ (\E o \in NewOps : /\ o.op \notin {"close_sftp", "close_ssh"}
                              /\ (o.raised \/ (o.op = "exec" /\ o.status # 0))) =>
              pc' = "Failed"
      ]_vars

C3_Witness ==
    /\ pc = "TornDown"
    /\ outcome = "true"
    /\ HasOp("put")
    /\ HasOp("get")

\* C4: a non-zero exit status of the pipeline command makes the run fail with
\* no download at all, and only exit status zero lets the run go on
C4_NonZeroExitFails ==
    /\ (\E i \in 1..Len(log) : log[i].op = "exec" /\ log[i].status # 0) =>
          /\ pc \in Terminal
          /\ outcome = "false"
          /\ ~HasOp("get")
          /\ round.down = 0
    /\ (pc \in {"Executed", "Downloading", "Downloaded", "Done"} \/ outcome = "true") =>
          \E i \in 1..Len(log) : log[i].op = "exec" /\ ~log[i].raised /\ log[i].status = 0

C4_Witness ==
    /\ pc = "TornDown"
    /\ \E i \in 1..Len(log) : log[i].op = "exec" /\ log[i].status = -1

\* the pipeline name is no key of the configuration, or its entry lacks a key
BadPipeline ==
    /\ cfg.file = "ok"
    /\ \/ ~cfg.has_pipeline
       \/ "remote_paths" \notin cfg.pipeline
       \/ "pipeline_command" \notin cfg.pipeline

\* C5: with an unknown or incomplete pipeline entry run_pipeline returns
\* failure and no session is opened and no call is issued
C5_BadPipelineNoConnection ==
    BadPipeline =>
        /\ ssh = "None"
        /\ sftp = "None"
        /\ log = <<>>
        /\ pc \in {"Start", "Idle", "Failed", "TornDown"}
        /\ (pc \in Terminal /\ attrs) => outcome = "false"

C5_Witness ==
    /\ BadPipeline
    /\ cfg.has_pipeline
    /\ pc = "TornDown"
    /\ outcome = "false"

\* C6: with no local input path the run fails and nothing but opening (and
\* closing) the session and its channel is done on the connection
C6_MissingInputNoSideEffect ==
    InputMissing =>
        /\ \A i \in 1..Len(log) :
              log[i].op \in {"connect", "open_sftp", "close_sftp", "close_ssh"}
        /\ outcome # "true"
        /\ Rank(pc) \in {0, 1, 6}
        /\ pc # "Uploading"

C6_Witness ==
    /\ InputMissing
    /\ pc = "TornDown"
    /\ outcome = "false"
    /\ sftp = "closed"

\* C7: after teardown no session and no channel opened in the run is left
\* open, a handle whose own close call failed excepted
C7_HandlesClosed ==
    pc = "TornDown" =>
        /\ ssh \in {"created", "connected"} =>
              \E i \in 1..Len(log) : log[i].op = "close_ssh" /\ log[i].raised
        /\ sftp = "open" =>
              \E i \in 1..Len(log) : log[i].op = "close_sftp" /\ log[i].raised

\* C8: a remote mkdir that exits non-zero ends the run: no put into that
\* directory and no command after it, and the run fails
C8_MkdirFailureTerminal ==
    \A i \in 1..Len(log) :
        (log[i].op = "mkdir" /\ ~log[i].raised /\ log[i].status # 0) =>
            /\ \A j \in (i + 1)..Len(log) :
                  /\ ~(log[j].op = "put" /\ ~log[j].raised /\ Parent(log[j].arg) = log[i].arg)
                  /\ log[j].op # "exec"
            /\ pc \in Terminal
            /\ outcome = "false"

\* C9: a successful directory upload repeated over the unchanged tree leaves
\* the remote files and directories as the first one left them, and a
\* repeated download leaves the local files as the first one left them
C9_Idempotent ==
    /\ (round.up = 2 /\ pc = "Uploaded") =>
          (remoteFiles = snap.rf /\ remoteDirs = snap.rd)
    /\ (round.down = 2 /\ pc = "Downloaded") => localFiles = snap.lf

C9_Witness ==
    /\ round.up = 2
    /\ round.down = 2
    /\ pc = "Downloaded"
    /\ HasOp("put")
    /\ HasOp("get")

\* C10: the first put or get that fails ends the transfer: failure is
\* returned, no later file is attempted, and every file transferred before
\* it in that walk is still at its destination with the content transferred
C10_FirstFailureAborts ==
    \A i \in 1..Len(log) :
        (log[i].op \in {"put", "get"} /\ log[i].raised) =>
            /\ \A j \in (i + 1)..Len(log) : log[j].op \in {"close_sftp", "close_ssh"}
            /\ pc \in Terminal
            /\ outcome = "false"
            /\ \A k \in 1..(i - 1) :
                  (log[k].op = log[i].op /\ ~log[k].raised) =>
                      IF log[k].op = "put"
                      THEN /\ log[k].arg \in DOMAIN remoteFiles
                           /\ remoteFiles[log[k].arg] =
                                localFiles[InputPath \o SubSeq(log[k].arg, Len(InputDir) + 1,
                                                               Len(log[k].arg))]
                      ELSE LET dest == OutputPath \o SubSeq(log[k].arg, Len(OutputDir) + 1,
                                                            Len(log[k].arg))
                           IN /\ dest \in DOMAIN localFiles
                              /\ localFiles[dest] = remoteFiles[log[k].arg]

C10_Witness ==
    /\ pc = "TornDown"
    /\ \E i \in 1..Len(log), k \in 1..Len(log) :
          /\ k < i
          /\ log[i].op = "put" /\ log[i].raised
          /\ log[k].op = "put" /\ ~log[k].raised

====
